---- MODULE Spec2Model ----
(***************************************************************************)
(* A model of the deltoid crate: the delta algebra of the primitive types  *)
(* (lib.rs) and of Rc<T> (rc.rs), and the snapshot histories FullSnapshots *)
(* (snapshot/full.rs) and DeltaSnapshots (snapshot/delta.rs).              *)
(*                                                                         *)
(* Values.  A scalar is [ty |-> <type name>, v |-> <literal>]; an Rc<T> is *)
(* [rc |-> <the T it points to>].  Option<X> is a sequence of at most one  *)
(* X.  A primitive delta `$delta(Option<$type>)` is [ty, slot]; an         *)
(* RcDelta(Option<Box<Delta>>) is [rcslot].  DeltaResult<X> is             *)
(* [ok |-> TRUE, val |-> x] or [ok |-> FALSE, err |-> e].                  *)
(***************************************************************************)
EXTENDS Integers, Sequences, FiniteSets, TLC

VARIABLES
    T,          \* the type parameter of the histories: [rc, base]
    full,       \* FullSnapshots.0
    snapshots,  \* DeltaSnapshots.snapshots
    current,    \* DeltaSnapshots.current
    lastOp,     \* the last call made on a history, with its arguments
    result,     \* what the last call returned
    valA,       \* algebra: the value a
    valB,       \* algebra: the value b
    dlt,        \* algebra: the DeltaResult<Delta> at hand
    dltFrom,    \* algebra: "input", "delta" or "inverse_delta"
    recv,       \* algebra: the receiver of the last apply_delta, "a" or "b"
    res,        \* algebra: what the last apply_delta returned
    snapL,      \* ordering: the left snapshot
    snapR,      \* ordering: the right snapshot
    cmpOut      \* ordering: the results of eq, partial_cmp and cmp

vars == <<T, full, snapshots, current, lastOp, result,
          valA, valB, dlt, dltFrom, recv, res, snapL, snapR, cmpOut>>

histVars == <<T, full, snapshots, current, lastOp, result>>
algVars  == <<valA, valB, dlt, dltFrom, recv, res>>
cmpVars  == <<snapL, snapR, cmpOut>>

----------------------------------------------------------------------------
(* Bounds *)

MaxLen == 2     \* longest history

----------------------------------------------------------------------------
(* Option and DeltaResult *)

None == <<>>
Some(x) == <<x>>
is_none(o) == Len(o) = 0
unwrap(o) == o[1]

Ok(x) == [ok |-> TRUE, val |-> x]
Err(e) == [ok |-> FALSE, err |-> e]
ExpectedValue == "ExpectedValue"

NoCall == [ok |-> FALSE, err |-> "not called"]

----------------------------------------------------------------------------
(* The primitive types of impl_delta_trait_for_primitive_types! *)

SignedTypes   == {"i8", "i16", "i32", "i64", "i128", "isize"}
UnsignedTypes == {"u8", "u16", "u32", "u64", "u128", "usize"}
FloatTypes    == {"f32", "f64"}
ScalarTypes   == SignedTypes \cup UnsignedTypes \cup FloatTypes
                    \cup {"bool", "char", "()"}

\* A few literals of each type, the type's Default::default() among them.
Literals(ty) ==
    IF ty \in SignedTypes THEN {"-1", "0", "1"}
    ELSE IF ty \in UnsignedTypes THEN {"0", "1", "2"}
    ELSE IF ty \in FloatTypes THEN {"0.0", "1.5", "NaN"}
    ELSE IF ty = "bool" THEN {"false", "true"}
    ELSE IF ty = "char" THEN {"NUL", "x"}
    ELSE {"()"}

DefaultLiteral(ty) ==
    IF ty \in SignedTypes \cup UnsignedTypes THEN "0"
    ELSE IF ty \in FloatTypes THEN "0.0"
    ELSE IF ty = "bool" THEN "false"
    ELSE IF ty = "char" THEN "NUL"
    ELSE "()"

Scalars(ty) == [ty : {ty}, v : Literals(ty)]
PrimDeltas(ty) == [ty : {ty}, slot : {None} \cup {Some(v) : v \in Literals(ty)}]

IsRc(x) == "rc" \in DOMAIN x
RcNew(x) == [rc |-> x]
as_ref(x) == x.rc

IsRcDelta(d) == "rcslot" \in DOMAIN d
RcDelta(o) == [rcslot |-> o]

\* An implementer of the trait whose delta() returns Err for some operands,
\* as the DeltaResult of the trait's signature allows.  None of the types
\* above is one: it stands for a type outside these files.  Its delta type
\* is a slot like a primitive's; its delta() fails when rhs is "bad".
Fallible == "Fallible"
FallibleLiterals == {"u0", "u1", "bad"}
FallibleDefault == "u0"
UnsupportedType == "UnsupportedType"

Types == [rc : BOOLEAN, base : ScalarTypes]
Values(t) ==
    IF t.base = Fallible THEN [ty : {Fallible}, v : FallibleLiterals]
    ELSE IF t.rc THEN {RcNew(x) : x \in Scalars(t.base)}
    ELSE Scalars(t.base)
Deltas(t) ==
    IF t.base = Fallible
    THEN [ty : {Fallible}, slot : {None} \cup {Some(v) : v \in FallibleLiterals}]
    ELSE IF t.rc
    THEN {RcDelta(None)} \cup {RcDelta(Some(d)) : d \in PrimDeltas(t.base)}
    ELSE PrimDeltas(t.base)

\* Default::default() of T; Rc<T>::default() is Rc::new(T::default()).
Default(t) ==
    IF t.base = Fallible THEN [ty |-> Fallible, v |-> FallibleDefault]
    ELSE LET s == [ty |-> t.base, v |-> DefaultLiteral(t.base)]
         IN  IF t.rc THEN RcNew(s) ELSE s

\* PartialEq of a scalar (the `lhs == rhs` of Rc::delta): IEEE 754 for the
\* floats, where NaN equals nothing, itself included.
eq(x, y) ==
    IF x.ty \in FloatTypes /\ (x.v = "NaN" \/ y.v = "NaN") THEN FALSE
    ELSE x.v = y.v

----------------------------------------------------------------------------
(* lib.rs: DeltaOps, IntoDelta and FromDelta of the primitive types *)

into_delta(self) == Ok([ty |-> self.ty, slot |-> Some(self.v)])

\* from_delta with an empty slot read as the default value
from_delta_default(delta) ==
    IF is_none(delta.slot) THEN Ok([ty |-> delta.ty, v |-> DefaultLiteral(delta.ty)])
    ELSE Ok([ty |-> delta.ty, v |-> unwrap(delta.slot)])

from_delta(delta) ==
    IF is_none(delta.slot) THEN Err(ExpectedValue)
    ELSE Ok([ty |-> delta.ty, v |-> unwrap(delta.slot)])

prim_apply_delta(self, delta) == from_delta(delta)

\* delta taken of the receiver instead of the argument
prim_delta_lhs(self, rhs) == into_delta(self)

\* delta with the slot left empty when nothing changed
prim_delta_elide(self, rhs) ==
    IF eq(self, rhs) THEN Ok([ty |-> rhs.ty, slot |-> None]) ELSE into_delta(rhs)

prim_delta(self, rhs) == into_delta(rhs)

(* rc.rs: Deltoid for Rc<T>, T a primitive type *)

\* Rc::apply_delta with the empty slot read as the default value, as
\* Rc::from_delta reads it
rc_apply_delta_default(self, delta) ==
    LET lhs == as_ref(self)
    IN  IF is_none(delta.rcslot)
        THEN Ok(RcNew([ty |-> lhs.ty, v |-> DefaultLiteral(lhs.ty)]))
        ELSE LET r == prim_apply_delta(lhs, unwrap(delta.rcslot))
             IN  IF r.ok THEN Ok(RcNew(r.val)) ELSE r

rc_apply_delta(self, delta) ==
    LET lhs == as_ref(self)
    IN  IF is_none(delta.rcslot) THEN Ok(self)
        ELSE LET r == prim_apply_delta(lhs, unwrap(delta.rcslot))
             IN  IF r.ok THEN Ok(RcNew(r.val)) ELSE r

\* Rc::delta without the equality test
rc_delta_always(self, other) ==
    LET r == into_delta(as_ref(other))
    IN  Ok(RcDelta(Some(r.val)))

rc_delta(self, other) ==
    LET lhs == as_ref(self)
        rhs == as_ref(other)
    IN  IF eq(lhs, rhs) THEN Ok(RcDelta(None))
        ELSE LET r == prim_delta(lhs, rhs)
             IN  IF r.ok THEN Ok(RcDelta(Some(r.val))) ELSE r

(* The trait methods, dispatched on the type of self *)

apply_delta(self, delta) ==
    IF IsRc(self) THEN rc_apply_delta(self, delta)
    ELSE prim_apply_delta(self, delta)

fallible_delta(self, rhs) ==
    IF rhs.v = "bad" THEN Err(UnsupportedType) ELSE into_delta(rhs)

delta(self, rhs) ==
    IF IsRc(self) THEN rc_delta(self, rhs)
    ELSE IF self.ty = Fallible THEN fallible_delta(self, rhs)
    ELSE prim_delta(self, rhs)

\* inverse_delta with the operands not swapped
inverse_delta_unswapped(self, other) == delta(self, other)

inverse_delta(self, other) == delta(other, self)

----------------------------------------------------------------------------
(* Snapshots *)

\* The instants Utc::now() returns, and the origins the callers give.
Times == {0, 1}
Origins == {"a", "b"}

\* impl Default for FullSnapshot; now is what Utc::now() returns.
FullSnapshot_default(t, now) ==
    [timestamp |-> now, origin |-> "default", state |-> Default(t)]

Idle == [name |-> "none"]
NoCmp == [eq |-> None, partial_cmp |-> None, cmp |-> None]

\* The variables a specification does not use stay as they are here.
HistIdle ==
    /\ full = <<>>
    /\ snapshots = <<>>
    /\ current = FullSnapshot_default(T, 0)
    /\ lastOp = Idle
    /\ result = NoCall

AlgIdle ==
    /\ valA = Default(T)
    /\ valB = Default(T)
    /\ dlt = NoCall
    /\ dltFrom = "input"
    /\ recv = "none"
    /\ res = NoCall

CmpIdle ==
    /\ snapL = FullSnapshot_default(T, 0)
    /\ snapR = FullSnapshot_default(T, 0)
    /\ cmpOut = NoCmp

----------------------------------------------------------------------------
(* snapshot/delta.rs: DeltaSnapshots<T>.  self is [snapshots, current];    *)
(* a &mut self method gives [self |-> <self after>, ret |-> <returned>].   *)
(* now is what the method's call of Utc::now() returns.                    *)

Unit == "()"

FullSnapshotsOf(t) == [timestamp : Times, origin : Origins, state : Values(t)]
DeltaSnapshotsOf(t) == [timestamp : Times, origin : Origins, delta : Deltas(t)]

DeltaSnapshots_new(t, now) ==
    [snapshots |-> <<>>, current |-> FullSnapshot_default(t, now)]

update_current(self, origin, state, now) ==
    [self |-> [self EXCEPT !.current =
                  [timestamp |-> now, origin |-> origin, state |-> state]],
     ret |-> Unit]

\* clear that empties the snapshots and leaves current
clear_keeps_current(self, t, now) ==
    [self |-> [self EXCEPT !.snapshots = <<>>], ret |-> Unit]

DeltaSnapshots_clear(self, t, now) ==
    [self |-> [snapshots |-> <<>>, current |-> FullSnapshot_default(t, now)],
     ret |-> Unit]

DeltaSnapshots_len(self) == Len(self.snapshots)

DeltaSnapshots_is_empty(self) == self.snapshots = <<>>

DeltaSnapshots_add_snapshot(self, snapshot) ==
    [self |-> [self EXCEPT !.snapshots = Append(@, snapshot)], ret |-> Unit]

\* push_snapshot that leaves current as it was
push_snapshot_keeps_current(self, origin, state, now) ==
    LET d == delta(self.current.state, state)
    IN  IF ~d.ok THEN [self |-> self, ret |-> d]
        ELSE [self |-> DeltaSnapshots_add_snapshot(self,
                          [timestamp |-> now, origin |-> origin,
                           delta |-> d.val]).self,
              ret |-> Ok(Unit)]

\* push_snapshot that takes the delta after current was replaced
push_snapshot_late_delta(self, origin, state, now) ==
    LET fullsnap == [timestamp |-> now, origin |-> origin, state |-> state]
        d == delta(fullsnap.state, state)
    IN  IF ~d.ok THEN [self |-> self, ret |-> d]
        ELSE [self |-> [DeltaSnapshots_add_snapshot(self,
                           [timestamp |-> fullsnap.timestamp,
                            origin |-> fullsnap.origin,
                            delta |-> d.val]).self
                        EXCEPT !.current = fullsnap],
              ret |-> Ok(Unit)]

\* push_snapshot that replaces current before it takes the delta
push_snapshot_current_first(self, origin, state, now) ==
    LET old == self.current.state
        fullsnap == [timestamp |-> now, origin |-> origin, state |-> state]
        d == delta(old, state)
    IN  IF ~d.ok THEN [self |-> [self EXCEPT !.current = fullsnap], ret |-> d]
        ELSE [self |-> [DeltaSnapshots_add_snapshot(self,
                           [timestamp |-> fullsnap.timestamp,
                            origin |-> fullsnap.origin,
                            delta |-> d.val]).self
                        EXCEPT !.current = fullsnap],
              ret |-> Ok(Unit)]

DeltaSnapshots_push_snapshot(self, origin, state, now) ==
    LET old == self.current.state
        d == delta(old, state)
        fullsnap == [timestamp |-> now, origin |-> origin, state |-> state]
    IN  IF ~d.ok THEN [self |-> self, ret |-> d]
        ELSE [self |-> [DeltaSnapshots_add_snapshot(self,
                           [timestamp |-> fullsnap.timestamp,
                            origin |-> fullsnap.origin,
                            delta |-> d.val]).self
                        EXCEPT !.current = fullsnap],
              ret |-> Ok(Unit)]

take_snapshots(self) ==
    [self |-> [self EXCEPT !.snapshots = <<>>], ret |-> self.snapshots]

\* The loop of to_full_snapshots from the i-th stored snapshot on.
RECURSIVE expand_loop(_, _, _, _)
expand_loop(snaps, i, uncompressed, initial) ==
    IF i > Len(snaps) THEN Ok(uncompressed)
    ELSE LET old == IF uncompressed = <<>> THEN initial.state
                    ELSE uncompressed[Len(uncompressed)].state
             new == apply_delta(old, snaps[i].delta)
         IN  IF ~new.ok THEN new
             ELSE expand_loop(snaps, i + 1,
                      Append(uncompressed,
                             [timestamp |-> snaps[i].timestamp,
                              origin |-> snaps[i].origin,
                              state |-> new.val]),
                      initial)

\* to_full_snapshots that drops a delta it cannot apply
RECURSIVE expand_loop_skip(_, _, _, _)
expand_loop_skip(snaps, i, uncompressed, initial) ==
    IF i > Len(snaps) THEN Ok(uncompressed)
    ELSE LET old == IF uncompressed = <<>> THEN initial.state
                    ELSE uncompressed[Len(uncompressed)].state
             new == apply_delta(old, snaps[i].delta)
         IN  IF ~new.ok THEN expand_loop_skip(snaps, i + 1, uncompressed, initial)
             ELSE expand_loop_skip(snaps, i + 1,
                      Append(uncompressed,
                             [timestamp |-> snaps[i].timestamp,
                              origin |-> snaps[i].origin,
                              state |-> new.val]),
                      initial)

to_full_snapshots_skip(self, t, now) ==
    expand_loop_skip(self.snapshots, 1, <<>>, FullSnapshot_default(t, now))

\* to_full_snapshots that applies every delta to the initial state
RECURSIVE expand_loop_initial(_, _, _, _)
expand_loop_initial(snaps, i, uncompressed, initial) ==
    IF i > Len(snaps) THEN Ok(uncompressed)
    ELSE LET new == apply_delta(initial.state, snaps[i].delta)
         IN  IF ~new.ok THEN new
             ELSE expand_loop_initial(snaps, i + 1,
                      Append(uncompressed,
                             [timestamp |-> snaps[i].timestamp,
                              origin |-> snaps[i].origin,
                              state |-> new.val]),
                      initial)

to_full_snapshots_initial(self, t, now) ==
    expand_loop_initial(self.snapshots, 1, <<>>, FullSnapshot_default(t, now))

to_full_snapshots(self, t, now) ==
    expand_loop(self.snapshots, 1, <<>>, FullSnapshot_default(t, now))

----------------------------------------------------------------------------
(* snapshot/full.rs: FullSnapshots<T>.  self is the Vec it wraps. *)

FullSnapshots_new == <<>>

FullSnapshots_clear(self) == [self |-> <<>>, ret |-> Unit]

FullSnapshots_len(self) == Len(self)

FullSnapshots_is_empty(self) == self = <<>>

FullSnapshots_add_snapshot(self, snapshot) ==
    [self |-> Append(self, snapshot), ret |-> Unit]

\* push_snapshot that puts the snapshot first
FullSnapshots_push_snapshot_front(self, origin, state, now) ==
    [self |-> <<[timestamp |-> now, origin |-> origin, state |-> state]>> \o self,
     ret |-> Ok(Unit)]

FullSnapshots_push_snapshot(self, origin, state, now) ==
    [self |-> FullSnapshots_add_snapshot(self,
                  [timestamp |-> now, origin |-> origin, state |-> state]).self,
     ret |-> Ok(Unit)]

\* The loop of to_delta_snapshots from index sidx (0-based) on.
RECURSIVE compact_loop(_, _, _, _)
compact_loop(self, sidx, deltas, initial) ==
    IF sidx >= Len(self) THEN Ok(deltas)
    ELSE LET snapshot == self[sidx + 1]
             old == IF sidx = 0 THEN initial.state ELSE self[sidx].state
             new == snapshot.state
             d == delta(old, new)
         IN  IF ~d.ok THEN d
             ELSE compact_loop(self, sidx + 1,
                      Append(deltas,
                             [timestamp |-> snapshot.timestamp,
                              origin |-> snapshot.origin,
                              delta |-> d.val]),
                      initial)

\* to_delta_snapshots that takes every delta from the initial state
RECURSIVE compact_loop_initial(_, _, _, _)
compact_loop_initial(self, sidx, deltas, initial) ==
    IF sidx >= Len(self) THEN Ok(deltas)
    ELSE LET snapshot == self[sidx + 1]
             d == delta(initial.state, snapshot.state)
         IN  IF ~d.ok THEN d
             ELSE compact_loop_initial(self, sidx + 1,
                      Append(deltas,
                             [timestamp |-> snapshot.timestamp,
                              origin |-> snapshot.origin,
                              delta |-> d.val]),
                      initial)

to_delta_snapshots_initial(self, t, now) ==
    LET initial == FullSnapshot_default(t, now)
        deltas == compact_loop_initial(self, 0, <<>>, initial)
    IN  IF ~deltas.ok THEN deltas
        ELSE Ok([snapshots |-> deltas.val,
                 current |-> IF self = <<>> THEN initial ELSE self[Len(self)]])

to_delta_snapshots(self, t, now) ==
    LET initial == FullSnapshot_default(t, now)
        deltas == compact_loop(self, 0, <<>>, initial)
    IN  IF ~deltas.ok THEN deltas
        ELSE Ok([snapshots |-> deltas.val,
                 current |-> IF self = <<>> THEN initial ELSE self[Len(self)]])

----------------------------------------------------------------------------
(* The algebra, called on a pair of values a, b and a delta d of one type: *)
(*     let d = a.delta(&b)            (AlgDelta)                           *)
(*     let d = a.inverse_delta(&b)    (AlgInverseDelta)                    *)
(*     let r = a.apply_delta(&d)  or  b.apply_delta(&d)   (AlgApplyDelta)  *)

AlgInit ==
    /\ T \in Types
    /\ valA \in Values(T)
    /\ valB \in Values(T)
    /\ dlt \in {Ok(d) : d \in Deltas(T)}
    /\ dltFrom = "input"
    /\ recv = "none"
    /\ res = NoCall
    /\ HistIdle
    /\ CmpIdle

AlgDelta ==
    /\ dlt' = delta(valA, valB)
    /\ dltFrom' = "delta"
    /\ recv' = "none"
    /\ res' = NoCall
    /\ UNCHANGED <<valA, valB, histVars, cmpVars>>

AlgInverseDelta ==
    /\ dlt' = inverse_delta(valA, valB)
    /\ dltFrom' = "inverse_delta"
    /\ recv' = "none"
    /\ res' = NoCall
    /\ UNCHANGED <<valA, valB, histVars, cmpVars>>

AlgApplyDelta ==
    /\ dlt.ok
    /\ \E r \in {"a", "b"} :
          /\ recv' = r
          /\ res' = apply_delta(IF r = "a" THEN valA ELSE valB, dlt.val)
    /\ UNCHANGED <<valA, valB, dlt, dltFrom, histVars, cmpVars>>

AlgNext == AlgDelta \/ AlgInverseDelta \/ AlgApplyDelta

SpecAlgebra == AlgInit /\ [][AlgNext]_vars

----------------------------------------------------------------------------
(* A program that holds one DeltaSnapshots<T> and calls its methods.       *)
(* to_full_snapshots takes self by value: after it snapshots and current   *)
(* keep what was moved into the call, and only clear() on the FullSnapshots *)
(* it returned, and new(), can follow.                                     *)

\* The types T the histories are instantiated with.
HistTypes == {[rc |-> FALSE, base |-> "bool"], [rc |-> TRUE, base |-> "bool"],
              [rc |-> FALSE, base |-> Fallible]}

DSelf == [snapshots |-> snapshots, current |-> current]

Alive == lastOp.name \notin {"to_full_snapshots", "full_clear"}

Init ==
    /\ T \in HistTypes
    /\ \E now \in Times :
          LET h == DeltaSnapshots_new(T, now)
          IN  snapshots = h.snapshots /\ current = h.current
    /\ lastOp = [name |-> "new"]
    /\ result = NoCall
    /\ full = <<>>
    /\ AlgIdle
    /\ CmpIdle

New ==
    /\ \E now \in Times :
          LET h == DeltaSnapshots_new(T, now)
          IN  snapshots' = h.snapshots /\ current' = h.current
    /\ lastOp' = [name |-> "new"]
    /\ result' = NoCall
    /\ full' = <<>>
    /\ UNCHANGED <<T, algVars, cmpVars>>

UpdateCurrent ==
    /\ Alive
    /\ \E origin \in Origins, state \in Values(T), now \in Times :
          LET r == update_current(DSelf, origin, state, now)
          IN  /\ snapshots' = r.self.snapshots
              /\ current' = r.self.current
              /\ result' = r.ret
              /\ lastOp' = [name |-> "update_current", origin |-> origin,
                            state |-> state]
    /\ UNCHANGED <<T, full, algVars, cmpVars>>

Clear ==
    /\ Alive
    /\ \E now \in Times :
          LET r == DeltaSnapshots_clear(DSelf, T, now)
          IN  /\ snapshots' = r.self.snapshots
              /\ current' = r.self.current
              /\ result' = r.ret
    /\ lastOp' = [name |-> "clear", was |-> DeltaSnapshots_len(DSelf)]
    /\ UNCHANGED <<T, full, algVars, cmpVars>>

PushSnapshot ==
    /\ Alive
    /\ DeltaSnapshots_len(DSelf) < MaxLen
    /\ \E origin \in Origins, state \in Values(T), now \in Times :
          LET r == DeltaSnapshots_push_snapshot(DSelf, origin, state, now)
          IN  /\ snapshots' = r.self.snapshots
              /\ current' = r.self.current
              /\ result' = r.ret
              /\ lastOp' = [name |-> "push_snapshot", origin |-> origin,
                            state |-> state]
    /\ UNCHANGED <<T, full, algVars, cmpVars>>

AddSnapshot ==
    /\ Alive
    /\ DeltaSnapshots_len(DSelf) < MaxLen
    /\ \E snapshot \in DeltaSnapshotsOf(T) :
          LET r == DeltaSnapshots_add_snapshot(DSelf, snapshot)
          IN  /\ snapshots' = r.self.snapshots
              /\ current' = r.self.current
              /\ result' = r.ret
    /\ lastOp' = [name |-> "add_snapshot"]
    /\ UNCHANGED <<T, full, algVars, cmpVars>>

TakeSnapshots ==
    /\ Alive
    /\ LET r == take_snapshots(DSelf)
       IN  /\ snapshots' = r.self.snapshots
           /\ current' = r.self.current
           /\ result' = r.ret
    /\ lastOp' = [name |-> "take_snapshots"]
    /\ UNCHANGED <<T, full, algVars, cmpVars>>

\* full becomes the FullSnapshots returned, when one is.
ToFullSnapshots ==
    /\ Alive
    /\ \E now \in Times :
          LET r == to_full_snapshots(DSelf, T, now)
          IN  result' = r /\ full' = IF r.ok THEN r.val ELSE full
    /\ lastOp' = [name |-> "to_full_snapshots"]
    /\ UNCHANGED <<T, snapshots, current, algVars, cmpVars>>

\* FullSnapshots::clear on the FullSnapshots that to_full_snapshots returned.
ExpandedClear ==
    /\ lastOp.name = "to_full_snapshots"
    /\ result.ok
    /\ LET r == FullSnapshots_clear(full)
       IN  full' = r.self /\ result' = r.ret
    /\ lastOp' = [name |-> "full_clear", was |-> FullSnapshots_len(full)]
    /\ UNCHANGED <<T, snapshots, current, algVars, cmpVars>>

Next ==
    \/ New
    \/ UpdateCurrent
    \/ Clear
    \/ PushSnapshot
    \/ AddSnapshot
    \/ TakeSnapshots
    \/ ToFullSnapshots
    \/ ExpandedClear

Spec == Init /\ [][Next]_vars

----------------------------------------------------------------------------
(* A program that fills a FullSnapshots<T>, compacts it and expands the    *)
(* result: to_delta_snapshots takes self by value, full keeps what was     *)
(* moved into it, and snapshots and current are the DeltaSnapshots it      *)
(* returned, on which to_full_snapshots is then called.                    *)

FullInit ==
    /\ T \in Types
    /\ full = FullSnapshots_new
    /\ snapshots = <<>>
    /\ current = FullSnapshot_default(T, 0)
    /\ lastOp = [name |-> "full_new"]
    /\ result = NoCall
    /\ AlgIdle
    /\ CmpIdle

Filling == lastOp.name \in {"full_new", "full_push_snapshot",
                            "full_add_snapshot", "full_clear"}

FullPushSnapshot ==
    /\ Filling
    /\ FullSnapshots_len(full) < MaxLen
    /\ \E origin \in Origins, state \in Values(T), now \in Times :
          LET r == FullSnapshots_push_snapshot(full, origin, state, now)
          IN  /\ full' = r.self
              /\ result' = r.ret
              /\ lastOp' = [name |-> "full_push_snapshot", origin |-> origin,
                            state |-> state]
    /\ UNCHANGED <<T, snapshots, current, algVars, cmpVars>>

FullAddSnapshot ==
    /\ Filling
    /\ FullSnapshots_len(full) < MaxLen
    /\ \E snapshot \in FullSnapshotsOf(T) :
          LET r == FullSnapshots_add_snapshot(full, snapshot)
          IN  full' = r.self /\ result' = r.ret
    /\ lastOp' = [name |-> "full_add_snapshot"]
    /\ UNCHANGED <<T, snapshots, current, algVars, cmpVars>>

FullClear ==
    /\ Filling
    /\ LET r == FullSnapshots_clear(full)
       IN  full' = r.self /\ result' = r.ret
    /\ lastOp' = [name |-> "full_clear"]
    /\ UNCHANGED <<T, snapshots, current, algVars, cmpVars>>

FullToDeltaSnapshots ==
    /\ Filling
    /\ \E now \in Times :
          LET r == to_delta_snapshots(full, T, now)
          IN  /\ result' = r
              /\ snapshots' = IF r.ok THEN r.val.snapshots ELSE snapshots
              /\ current' = IF r.ok THEN r.val.current ELSE current
    /\ lastOp' = [name |-> "to_delta_snapshots"]
    /\ UNCHANGED <<T, full, algVars, cmpVars>>

FullToFullSnapshots ==
    /\ lastOp.name = "to_delta_snapshots"
    /\ result.ok
    /\ \E now \in Times : result' = to_full_snapshots(DSelf, T, now)
    /\ lastOp' = [name |-> "to_full_snapshots"]
    /\ UNCHANGED <<T, full, snapshots, current, algVars, cmpVars>>

FullNext ==
    \/ FullPushSnapshot
    \/ FullAddSnapshot
    \/ FullClear
    \/ FullToDeltaSnapshots
    \/ FullToFullSnapshots

SpecFull == FullInit /\ [][FullNext]_vars

----------------------------------------------------------------------------
(* A program that makes a DeltaSnapshots<T> and a FullSnapshots<T>, pushes *)
(* the same (origin, state) on both, each push reading the clock itself,   *)
(* and then compacts the FullSnapshots.                                    *)

BothTypes == {[rc |-> FALSE, base |-> "bool"], [rc |-> TRUE, base |-> "bool"],
              [rc |-> FALSE, base |-> "f64"], [rc |-> TRUE, base |-> "f64"]}

BothInit ==
    /\ T \in BothTypes
    /\ full = FullSnapshots_new
    /\ \E now \in Times :
          LET h == DeltaSnapshots_new(T, now)
          IN  snapshots = h.snapshots /\ current = h.current
    /\ lastOp = [name |-> "new"]
    /\ result = NoCall
    /\ AlgIdle
    /\ CmpIdle

BothPushSnapshot ==
    /\ lastOp.name # "to_delta_snapshots"
    /\ FullSnapshots_len(full) < MaxLen
    /\ \E origin \in Origins, state \in Values(T), now1 \in Times, now2 \in Times :
          LET r == DeltaSnapshots_push_snapshot(DSelf, origin, state, now1)
              f == FullSnapshots_push_snapshot(full, origin, state, now2)
          IN  /\ snapshots' = r.self.snapshots
              /\ current' = r.self.current
              /\ full' = f.self
              /\ result' = r.ret
              /\ lastOp' = [name |-> "push_snapshot", origin |-> origin,
                            state |-> state]
    /\ UNCHANGED <<T, algVars, cmpVars>>

BothToDeltaSnapshots ==
    /\ lastOp.name # "to_delta_snapshots"
    /\ \E now \in Times : result' = to_delta_snapshots(full, T, now)
    /\ lastOp' = [name |-> "to_delta_snapshots"]
    /\ UNCHANGED <<T, full, snapshots, current, algVars, cmpVars>>

BothNext == BothPushSnapshot \/ BothToDeltaSnapshots

SpecBoth == BothInit /\ [][BothNext]_vars

----------------------------------------------------------------------------
(* PartialEq, PartialOrd and Ord of FullSnapshot (full.rs) and of          *)
(* DeltaSnapshot (delta.rs).  An Ordering is "Less", "Equal" or "Greater". *)

\* DateTime<Utc>::cmp
time_cmp(x, y) == IF x < y THEN "Less" ELSE IF x > y THEN "Greater" ELSE "Equal"

\* The UTF-8 bytes of the origins in use.
Bytes(str) ==
    IF str = "a" THEN <<97>>
    ELSE IF str = "b" THEN <<98>>
    ELSE <<100, 101, 102, 97, 117, 108, 116>>

\* String::cmp: the lexicographic order of the bytes.
RECURSIVE bytes_cmp(_, _)
bytes_cmp(x, y) ==
    IF x = <<>> /\ y = <<>> THEN "Equal"
    ELSE IF x = <<>> THEN "Less"
    ELSE IF y = <<>> THEN "Greater"
    ELSE IF Head(x) < Head(y) THEN "Less"
    ELSE IF Head(x) > Head(y) THEN "Greater"
    ELSE bytes_cmp(Tail(x), Tail(y))

str_cmp(x, y) == bytes_cmp(Bytes(x), Bytes(y))

\* eq that looks at the state as well
FullSnapshot_eq_state(self, rhs) ==
    IF self.timestamp # rhs.timestamp THEN FALSE
    ELSE IF self.origin # rhs.origin THEN FALSE
    ELSE self.state = rhs.state

FullSnapshot_eq(self, rhs) ==
    IF self.timestamp # rhs.timestamp THEN FALSE
    ELSE IF self.origin # rhs.origin THEN FALSE
    ELSE TRUE

FullSnapshot_partial_cmp(self, rhs) ==
    LET timestamp_cmp == Some(time_cmp(self.timestamp, rhs.timestamp))
        origin_cmp == Some(str_cmp(self.origin, rhs.origin))
    IN  IF timestamp_cmp # Some("Equal") THEN timestamp_cmp
        ELSE IF origin_cmp # Some("Equal") THEN origin_cmp
        ELSE Some("Equal")

FullSnapshot_cmp(self, rhs) ==
    LET timestamp_cmp == time_cmp(self.timestamp, rhs.timestamp)
        origin_cmp == str_cmp(self.origin, rhs.origin)
    IN  IF timestamp_cmp # "Equal" THEN timestamp_cmp
        ELSE IF origin_cmp # "Equal" THEN origin_cmp
        ELSE "Equal"

DeltaSnapshot_eq(self, rhs) ==
    IF self.timestamp # rhs.timestamp THEN FALSE
    ELSE IF self.origin # rhs.origin THEN FALSE
    ELSE TRUE

DeltaSnapshot_partial_cmp(self, rhs) ==
    LET timestamp_cmp == Some(time_cmp(self.timestamp, rhs.timestamp))
        origin_cmp == Some(str_cmp(self.origin, rhs.origin))
    IN  IF timestamp_cmp # Some("Equal") THEN timestamp_cmp
        ELSE IF origin_cmp # Some("Equal") THEN origin_cmp
        ELSE Some("Equal")

DeltaSnapshot_cmp(self, rhs) ==
    LET timestamp_cmp == time_cmp(self.timestamp, rhs.timestamp)
        origin_cmp == str_cmp(self.origin, rhs.origin)
    IN  IF timestamp_cmp # "Equal" THEN timestamp_cmp
        ELSE IF origin_cmp # "Equal" THEN origin_cmp
        ELSE "Equal"

(* A program that compares two snapshots of one kind. *)

IsFull(snap) == "state" \in DOMAIN snap

CmpOrigins == Origins \cup {"default"}

CmpInit ==
    /\ T \in HistTypes
    /\ \/ /\ snapL \in [timestamp : Times, origin : CmpOrigins, state : Values(T)]
          /\ snapR \in [timestamp : Times, origin : CmpOrigins, state : Values(T)]
       \/ /\ snapL \in [timestamp : Times, origin : CmpOrigins, delta : Deltas(T)]
          /\ snapR \in [timestamp : Times, origin : CmpOrigins, delta : Deltas(T)]
    /\ cmpOut = NoCmp
    /\ HistIdle
    /\ AlgIdle

CmpEq ==
    /\ cmpOut' = [cmpOut EXCEPT !.eq =
                     Some(IF IsFull(snapL) THEN FullSnapshot_eq(snapL, snapR)
                          ELSE DeltaSnapshot_eq(snapL, snapR))]
    /\ UNCHANGED <<snapL, snapR, histVars, algVars>>

CmpPartialCmp ==
    /\ cmpOut' = [cmpOut EXCEPT !.partial_cmp =
                     Some(IF IsFull(snapL) THEN FullSnapshot_partial_cmp(snapL, snapR)
                          ELSE DeltaSnapshot_partial_cmp(snapL, snapR))]
    /\ UNCHANGED <<snapL, snapR, histVars, algVars>>

CmpCmp ==
    /\ cmpOut' = [cmpOut EXCEPT !.cmp =
                     Some(IF IsFull(snapL) THEN FullSnapshot_cmp(snapL, snapR)
                          ELSE DeltaSnapshot_cmp(snapL, snapR))]
    /\ UNCHANGED <<snapL, snapR, histVars, algVars>>

CmpNext == CmpEq \/ CmpPartialCmp \/ CmpCmp

SpecCmp == CmpInit /\ [][CmpNext]_vars

----------------------------------------------------------------------------
(* The claims about the algebra, under SpecAlgebra *)

\* The delta that changes nothing: the slot carries neither a replacement
\* nor a child delta.
NoOpDelta(t) == IF t.rc THEN RcDelta(None) ELSE [ty |-> t.base, slot |-> None]

\* The delta that replaces a scalar x wholesale.
Replace(x) == [ty |-> x.ty, slot |-> Some(x.v)]

\* C1: round trip.  For all a, b of one type, scalar or Rc of a scalar,
\* a.delta(b) succeeds, and a.apply_delta of that delta succeeds and returns
\* b.  (Returning b is returning the same value; Rust's == on it is false
\* where b is a float NaN, as it is between b and b.)
C1_RoundTrip ==
    /\ dltFrom = "delta" => dlt.ok
    /\ (dltFrom = "delta" /\ recv = "a") => res = Ok(valB)

C1_Witness ==
    /\ dltFrom = "delta" /\ recv = "a" /\ res.ok
    /\ T.rc /\ valA # valB

\* C4, as claimed: for every a of every shape, a.delta(a) is the no-op
\* delta.
C4_IdentityAllShapes ==
    (dltFrom = "delta" /\ valA = valB) => dlt = Ok(NoOpDelta(T))

\* C4, amended: for an Rc, a.delta(a) is the no-op delta when the content
\* is == to itself, and a boxed replacement of the content when it is not
\* (a float NaN); for a scalar, a.delta(a) is the replacement by a, never
\* the no-op delta.
C4_Identity ==
    (dltFrom = "delta" /\ valA = valB) =>
        IF T.rc
        THEN IF eq(as_ref(valA), as_ref(valA))
             THEN dlt = Ok(RcDelta(None))
             ELSE dlt = Ok(RcDelta(Some(Replace(as_ref(valA)))))
        ELSE dlt = Ok(Replace(valA)) /\ dlt # Ok(NoOpDelta(T))

C4_Witness ==
    /\ dltFrom = "delta" /\ valA = valB
    /\ T.rc /\ dlt = Ok(RcDelta(None))

\* C5: inverse law.  a.inverse_delta(b) is b.delta(a), and b.apply_delta of
\* it succeeds and returns a.
C5_Inverse ==
    /\ dltFrom = "inverse_delta" => dlt = delta(valB, valA)
    /\ (dltFrom = "inverse_delta" /\ recv = "b") => res = Ok(valA)

C5_Witness ==
    /\ dltFrom = "inverse_delta" /\ recv = "b" /\ res.ok
    /\ valA # valB

\* C6: for a scalar, apply_delta fails with ExpectedValue exactly when the
\* slot of the delta is empty, and returns the value in the slot otherwise,
\* whatever the receiver.
C6_ApplyReadsSlot ==
    (~T.rc /\ recv # "none") =>
        /\ is_none(dlt.val.slot) <=> res = Err(ExpectedValue)
        /\ ~is_none(dlt.val.slot) =>
               res = Ok([ty |-> T.base, v |-> unwrap(dlt.val.slot)])

C6_Witness ==
    /\ ~T.rc /\ recv = "b" /\ dltFrom = "input"
    /\ is_none(dlt.val.slot) /\ res = Err(ExpectedValue)

\* C10: for a scalar, a.delta(b) succeeds and is the delta whose slot holds
\* b, also when a = b: never the empty slot, and the same for every a.
C10_ScalarDeltaReplaces ==
    (~T.rc /\ dltFrom = "delta") =>
        /\ dlt = Ok([ty |-> T.base, slot |-> Some(valB.v)])
        /\ ~is_none(dlt.val.slot)

C10_Witness ==
    ~T.rc /\ dltFrom = "delta" /\ valA = valB /\ dlt.ok

----------------------------------------------------------------------------
(* The claims about the ordering of snapshots, under SpecCmp *)

\* The origins in use, in the order of their strings.
OriginRank(o) == IF o = "a" THEN 1 ELSE IF o = "b" THEN 2 ELSE 3

\* The order of two snapshots by timestamp, then by origin.
ByTimestampThenOrigin(l, r) ==
    IF l.timestamp < r.timestamp THEN "Less"
    ELSE IF l.timestamp > r.timestamp THEN "Greater"
    ELSE IF OriginRank(l.origin) < OriginRank(r.origin) THEN "Less"
    ELSE IF OriginRank(l.origin) > OriginRank(r.origin) THEN "Greater"
    ELSE "Equal"

\* C9: eq, partial_cmp and cmp of two FullSnapshots, and of two
\* DeltaSnapshots, are those of their (timestamp, origin) pairs, timestamp
\* first, whatever their state or delta; and the three agree.
C9_OrderByTimestampOrigin ==
    /\ ~is_none(cmpOut.eq) =>
          unwrap(cmpOut.eq) = (snapL.timestamp = snapR.timestamp
                                  /\ snapL.origin = snapR.origin)
    /\ ~is_none(cmpOut.cmp) =>
          unwrap(cmpOut.cmp) = ByTimestampThenOrigin(snapL, snapR)
    /\ ~is_none(cmpOut.partial_cmp) =>
          unwrap(cmpOut.partial_cmp) = Some(ByTimestampThenOrigin(snapL, snapR))
    /\ (~is_none(cmpOut.eq) /\ ~is_none(cmpOut.cmp)) =>
          (unwrap(cmpOut.eq) <=> unwrap(cmpOut.cmp) = "Equal")
    /\ (~is_none(cmpOut.partial_cmp) /\ ~is_none(cmpOut.cmp)) =>
          unwrap(cmpOut.partial_cmp) = Some(unwrap(cmpOut.cmp))

C9_Witness ==
    /\ IsFull(snapL) /\ snapL.state # snapR.state
    /\ snapL.timestamp = snapR.timestamp /\ snapL.origin = snapR.origin
    /\ cmpOut.eq = Some(TRUE)
    /\ cmpOut.cmp = Some("Equal")
    /\ cmpOut.partial_cmp = Some(Some("Equal"))

----------------------------------------------------------------------------
(* The claims about the histories *)

\* The state reached from T's default value by applying the deltas of snaps
\* in order, or the error of the first that does not apply.
RECURSIVE Replay(_, _)
Replay(t, snaps) ==
    IF snaps = <<>> THEN Ok(Default(t))
    ELSE LET p == Replay(t, SubSeq(snaps, 1, Len(snaps) - 1))
         IN  IF ~p.ok THEN p
             ELSE apply_delta(p.val, snaps[Len(snaps)].delta)

InSync == Replay(T, snapshots) = Ok(current.state)

\* C2 (SpecFull): to_delta_snapshots of any FullSnapshots, the empty one
\* included, succeeds with as many deltas, and to_full_snapshots of what it
\* returned succeeds and returns the same (timestamp, origin, state)
\* triples in the same order.
C2_HistoryRoundTrip ==
    /\ lastOp.name = "to_delta_snapshots" =>
          result.ok /\ Len(result.val.snapshots) = Len(full)
    /\ lastOp.name = "to_full_snapshots" => result = Ok(full)

C2_Witness ==
    /\ lastOp.name = "to_full_snapshots" /\ result.ok
    /\ Len(full) = 2 /\ T.rc
    /\ full[1].state = full[2].state /\ full[1].state # Default(T)

\* C3, as claimed (Spec): in every state the public methods of
\* DeltaSnapshots reach, current.state is the replay of the stored deltas
\* from the default value.
C3_CurrentNeverDrifts == InSync

\* C3, amended (Spec): current.state is the replay of the stored deltas
\* after new and after clear, and push_snapshot keeps it so; hence in every
\* state reached by new, push_snapshot and clear alone.
C3_PushKeepsCurrentInSync ==
    [][/\ lastOp'.name \in {"new", "clear"} => InSync'
       /\ (lastOp'.name = "push_snapshot" /\ InSync) => InSync']_vars

C3_Witness ==
    /\ lastOp.name = "push_snapshot" /\ InSync
    /\ Len(snapshots) = 2 /\ T.rc
    /\ snapshots[2].delta = RcDelta(None)
    /\ current.state # Default(T)

\* C7 (Spec): a push_snapshot(origin, state) that returns Ok appends one
\* DeltaSnapshot, whose delta is delta(current.state before, state) and
\* whose timestamp and origin are those of the new current; current.state
\* is state and current.origin is origin; the snapshots stored before are
\* unchanged, in the same order.
C7_PushAppendsOne ==
    [][(lastOp'.name = "push_snapshot" /\ result'.ok) =>
          LET n == Len(snapshots)
          IN  /\ Len(snapshots') = n + 1
              /\ SubSeq(snapshots', 1, n) = snapshots
              /\ snapshots'[n + 1].delta =
                     delta(current.state, lastOp'.state).val
              /\ snapshots'[n + 1].timestamp = current'.timestamp
              /\ snapshots'[n + 1].origin = current'.origin
              /\ current'.state = lastOp'.state
              /\ current'.origin = lastOp'.origin]_vars

C7_Witness ==
    /\ lastOp.name = "push_snapshot" /\ result = Ok(Unit)
    /\ Len(snapshots) = 2
    /\ snapshots[2].origin = lastOp.origin
    /\ snapshots[1].origin # lastOp.origin

\* The indices of the stored deltas up to which the replay fails.
Failing(t, snaps) ==
    {i \in 1..Len(snaps) : ~Replay(t, SubSeq(snaps, 1, i)).ok}

\* C8 (Spec): when some stored delta does not apply to the state replayed
\* before it, to_full_snapshots returns the error of the first such
\* apply_delta and nothing of the snapshots expanded before it.
C8_ExpandAllOrNothing ==
    (lastOp.name = "to_full_snapshots" /\ Failing(T, snapshots) # {}) =>
        LET bad == Failing(T, snapshots)
            k == CHOOSE i \in bad : \A j \in bad : i <= j
            pred == Replay(T, SubSeq(snapshots, 1, k - 1))
        IN  /\ result = apply_delta(pred.val, snapshots[k].delta)
            /\ ~result.ok
            /\ DOMAIN result = {"ok", "err"}

C8_Witness ==
    /\ lastOp.name = "to_full_snapshots"
    /\ Len(snapshots) = 2
    /\ Failing(T, snapshots) = {2}
    /\ result = Err(ExpectedValue)

----------------------------------------------------------------------------
(* Further claims *)

\* C11 (SpecFull): to_delta_snapshots of S1..Sn succeeds with n delta
\* snapshots in the same order; the i-th holds delta(S(i-1).state, Si.state),
\* with T's default value before S1, and the timestamp and origin of Si;
\* current is Sn, or the default snapshot (default state, origin "default")
\* when there is none.
C11_Compaction ==
    lastOp.name = "to_delta_snapshots" =>
        /\ result.ok
        /\ Len(result.val.snapshots) = Len(full)
        /\ \A i \in 1..Len(full) :
              LET prev == IF i = 1 THEN Default(T) ELSE full[i - 1].state
                  ds == result.val.snapshots[i]
              IN  /\ Ok(ds.delta) = delta(prev, full[i].state)
                  /\ ds.timestamp = full[i].timestamp
                  /\ ds.origin = full[i].origin
        /\ IF full = <<>>
           THEN /\ result.val.current.state = Default(T)
                /\ result.val.current.origin = "default"
           ELSE result.val.current = full[Len(full)]

C11_Witness ==
    /\ lastOp.name = "to_delta_snapshots" /\ result.ok
    /\ Len(full) = 2 /\ T.rc
    /\ full[1].state # Default(T)
    /\ result.val.snapshots[2].delta = RcDelta(None)
    /\ result.val.current = full[2]

\* C12 (SpecAlgebra): for Rc<T>, a.delta(b) is the no-op delta exactly when
\* the contents of a and b are ==, and otherwise the boxed delta of the
\* contents; apply_delta of the no-op delta returns the receiver, and of a
\* child delta a new Rc of the content patched by it, or the error of
\* patching the content.
C12_RcDelta ==
    T.rc =>
        /\ dltFrom = "delta" =>
              /\ dlt = Ok(RcDelta(None)) <=> eq(as_ref(valA), as_ref(valB))
              /\ ~eq(as_ref(valA), as_ref(valB)) =>
                    /\ dlt = Ok(RcDelta(Some(Replace(as_ref(valB)))))
                    /\ Ok(unwrap(dlt.val.rcslot)) =
                           prim_delta(as_ref(valA), as_ref(valB))
        /\ recv # "none" =>
              LET self == IF recv = "a" THEN valA ELSE valB
                  slot == dlt.val.rcslot
              IN  IF is_none(slot) THEN res = Ok(self)
                  ELSE IF is_none(unwrap(slot).slot)
                       THEN res = Err(ExpectedValue)
                       ELSE res = Ok(RcNew([ty |-> T.base,
                                            v |-> unwrap(unwrap(slot).slot)]))

C12_Witness ==
    /\ T.rc /\ dltFrom = "delta" /\ recv = "a"
    /\ dlt = Ok(RcDelta(None))
    /\ valA # Default(T) /\ res = Ok(valA)

\* C13 (Spec): after DeltaSnapshots::new() and after clear(), in whatever
\* state it is called, no snapshot is stored (len is 0, is_empty holds) and
\* current is the default snapshot (default state, origin "default");
\* after FullSnapshots::clear() the sequence is empty.
C13_ClearedIsEmpty ==
    /\ lastOp.name \in {"new", "clear"} =>
          /\ snapshots = <<>>
          /\ DeltaSnapshots_len(DSelf) = 0
          /\ DeltaSnapshots_is_empty(DSelf)
          /\ current.state = Default(T)
          /\ current.origin = "default"
    /\ lastOp.name = "full_clear" =>
          /\ full = <<>>
          /\ FullSnapshots_len(full) = 0
          /\ FullSnapshots_is_empty(full)

C13_Witness ==
    /\ lastOp.name = "clear" /\ lastOp.was = 2
    /\ snapshots = <<>> /\ current.origin = "default"

\* C14 (Spec): a push_snapshot(origin, state) whose delta(current.state,
\* state) fails returns that error and leaves the stored snapshots and
\* current as they were; one that succeeds both appends the delta and
\* replaces current.  No push_snapshot does one without the other.
C14_PushAtomic ==
    [][lastOp'.name = "push_snapshot" =>
          LET d == delta(current.state, lastOp'.state)
          IN  IF ~d.ok
              THEN /\ result' = d
                   /\ snapshots' = snapshots
                   /\ current' = current
              ELSE /\ result' = Ok(Unit)
                   /\ Len(snapshots') = Len(snapshots) + 1
                   /\ current'.state = lastOp'.state
                   /\ current'.origin = lastOp'.origin]_vars

C14_Witness ==
    /\ lastOp.name = "push_snapshot"
    /\ result = Err(UnsupportedType)
    /\ Len(snapshots) = 1 /\ InSync
    /\ current.state # lastOp.state

\* C15 (SpecBoth): after the same pushes on a fresh DeltaSnapshots and on a
\* fresh FullSnapshots, to_delta_snapshots of the latter gives the deltas
\* and origins the former stores, in the same order, and a current of the
\* same state and origin; the timestamps are left aside.
C15_IncrementalIsBatch ==
    lastOp.name = "to_delta_snapshots" =>
        /\ result.ok
        /\ Len(result.val.snapshots) = Len(snapshots)
        /\ \A i \in 1..Len(snapshots) :
              /\ result.val.snapshots[i].delta = snapshots[i].delta
              /\ result.val.snapshots[i].origin = snapshots[i].origin
        /\ result.val.current.state = current.state
        /\ result.val.current.origin = current.origin

C15_Witness ==
    /\ lastOp.name = "to_delta_snapshots" /\ result.ok
    /\ Len(snapshots) = 2 /\ T.rc
    /\ snapshots[1].origin # snapshots[2].origin
    /\ snapshots[1].delta # RcDelta(None)
    /\ snapshots[2].delta = RcDelta(None)

====
